---- MODULE Spec2Model ----
(***************************************************************************)
(* A model of the schema-driven proxy gateway of run_mcp_server.py,        *)
(* mcp_proxy_server.py and mcp_config_standalone.py: schema fetch, route   *)
(* table build, handler synthesis, forwarding and response normalisation.  *)
(*                                                                         *)
(* Text that the code takes apart (paths, identifiers, content types) is a *)
(* sequence of one-character strings, so that str.replace, str.strip and   *)
(* str.startswith are computed as Python computes them.  Python values are *)
(* records [t, v]: t the type, v the tuple of the value's items.           *)
(***************************************************************************)
EXTENDS Naturals, Sequences, FiniteSets, TLC

VARIABLES
    variant,      \* which script runs: "run", "proxy" or "standalone"
    schema,       \* the document the remote serves at /openapi.json
    pc,           \* the position of setup / main
    getCount,     \* GETs issued to the schema endpoint
    fetchResult,  \* what the fetch returned or raised, with the remote's answer
    app,          \* what setup returned: "None" or "proxy_app"
    synthesized,  \* the objects create_proxy_handler returned, in order
    routes,       \* the routes registered on the proxy application, in order
    calls         \* the inbound calls: handler, request, outbound call, response

vars == <<variant, schema, pc, getCount, fetchResult, app, synthesized, routes, calls>>

-----------------------------------------------------------------------------
(* Bounds *)

MaxCalls == 2
MaxPaths == 2

-----------------------------------------------------------------------------
(* Python strings *)

RECURSIVE StrReplace(_, _, _)
StrReplace(s, old, new) ==
    IF Len(s) < Len(old) THEN s
    ELSE IF SubSeq(s, 1, Len(old)) = old
         THEN new \o StrReplace(SubSeq(s, Len(old) + 1, Len(s)), old, new)
         ELSE <<s[1]>> \o StrReplace(Tail(s), old, new)

RECURSIVE LStrip(_, _)
LStrip(s, ch) ==
    IF s # <<>> /\ s[1] = ch THEN LStrip(Tail(s), ch) ELSE s

RECURSIVE RStrip(_, _)
RStrip(s, ch) ==
    IF s # <<>> /\ s[Len(s)] = ch THEN RStrip(SubSeq(s, 1, Len(s) - 1), ch) ELSE s

StrStrip(s, ch) == RStrip(LStrip(s, ch), ch)

StartsWith(s, prefix) ==
    Len(s) >= Len(prefix) /\ SubSeq(s, 1, Len(prefix)) = prefix

-----------------------------------------------------------------------------
(* Python values *)

PyNone == [t |-> "None", v |-> <<>>]
PyStr(chars) == [t |-> "str", v |-> chars]
PyInt(digits) == [t |-> "int", v |-> digits]
PyBytes(b) == [t |-> "bytes", v |-> IF b = "" THEN <<>> ELSE <<b>>]
PyDict(items) == [t |-> "dict", v |-> items]
PyList(items) == [t |-> "list", v |-> items]
PyBool(b) == [t |-> "bool", v |-> <<b>>]

\* Python truth value: empty containers, 0, False and None are false.
Truthy(x) ==
    CASE x.t = "None" -> FALSE
      [] x.t = "bool" -> x.v = <<"True">>
      [] x.t = "int" -> x.v # <<"0">>
      [] OTHER -> x.v # <<>>

IsDict(x) == x.t = "dict"

\* json.loads on the byte strings of the model: the texts it decodes, and the
\* value of each.  Every other text raises.
JsonTexts ==
    {"{\"a\":1}", "{ \"a\": 1 }", "{}", "[1,2]", "[]", "5", "0", "\"s\"", "\"\"",
     "true", "false", "null", "{\"pong\":true}"}

JsonLoads(text) ==
    CASE text = "{\"a\":1}" -> PyDict(<<"a", "1">>)
      [] text = "{ \"a\": 1 }" -> PyDict(<<"a", "1">>)
      [] text = "{\"pong\":true}" -> PyDict(<<"pong", "True">>)
      [] text = "{}" -> PyDict(<<>>)
      [] text = "[1,2]" -> PyList(<<"1", "2">>)
      [] text = "[]" -> PyList(<<>>)
      [] text = "5" -> PyInt(<<"5">>)
      [] text = "0" -> PyInt(<<"0">>)
      [] text = "\"s\"" -> PyStr(<<"s">>)
      [] text = "\"\"" -> PyStr(<<>>)
      [] text = "true" -> PyBool("True")
      [] text = "false" -> PyBool("False")
      [] text = "null" -> PyNone

JsonDecodes(text) == text \in JsonTexts

-----------------------------------------------------------------------------
(* Configuration *)

\* "http://localhost:6673"
FASTAPI_SERVICE_URL ==
    <<"h", "t", "t", "p", ":", "/", "/", "l", "o", "c", "a", "l", "h", "o", "s", "t",
      ":", "6", "6", "7", "3">>

\* "application/json"
ApplicationJson ==
    <<"a", "p", "p", "l", "i", "c", "a", "t", "i", "o", "n", "/", "j", "s", "o", "n">>

Variants == {"run", "proxy", "standalone"}

-----------------------------------------------------------------------------
(* Interface descriptions *)

\* "/a/b", "/a_b", "/a//b", "/users/{user_id}", "/ping", "/items/{id}/sub/{sub_id}"
PathAB == <<"/", "a", "/", "b">>
PathA_B == <<"/", "a", "_", "b">>
PathASlashSlashB == <<"/", "a", "/", "/", "b">>
PathUsers ==
    <<"/", "u", "s", "e", "r", "s", "/", "{", "u", "s", "e", "r", "_", "i", "d", "}">>
PathPing == <<"/", "p", "i", "n", "g">>
PathItems ==
    <<"/", "i", "t", "e", "m", "s", "/", "{", "i", "d", "}", "/", "s", "u", "b", "/",
      "{", "s", "u", "b", "_", "i", "d", "}">>

PathTemplates == {PathAB, PathA_B, PathASlashSlashB, PathUsers, PathPing}

\* "get_a_b", an identifier a schema may declare
IdGetAB == <<"g", "e", "t", "_", "a", "_", "b">>

Operation(declared) == [operationId |-> declared]

\* A path item: the method keys present under a path, each with its operation.
\* Keys outside the five recognised methods ("options", "head") occur too.
Item(keys, declared) == [k \in keys |-> Operation(declared)]

PathItemSet ==
    {Item({"get"}, PyNone),
     Item({"get"}, PyStr(IdGetAB)),
     Item({"post"}, PyStr(<<>>)),
     Item({"get", "post"}, PyNone),
     Item({"put", "patch", "options"}, PyNone),
     Item({"delete", "head"}, PyNone),
     Item({"options"}, PyNone)}

PathEntries == {[path |-> p, item |-> i] : p \in PathTemplates, i \in PathItemSet}

\* The documents of at most n paths: paths is the mapping in its iteration order.
RECURSIVE PathSeqs(_)
PathSeqs(n) ==
    IF n = 0 THEN {<<>>}
    ELSE LET shorter == PathSeqs(n - 1)
         IN shorter \cup
            {Append(s, e) : s \in {q \in shorter : Len(q) = n - 1},
                            e \in PathEntries}

DistinctPaths(s) == \A i, j \in 1..Len(s) : i # j => s[i].path # s[j].path

Schemas == {[paths |-> s] : s \in {q \in PathSeqs(MaxPaths) : DistinctPaths(q)}}

-----------------------------------------------------------------------------
(* Route table builder: create_proxy_routes *)

Methods == <<"get", "post", "put", "delete", "patch">>

MethodChars(m) ==
    CASE m = "get" -> <<"g", "e", "t">>
      [] m = "post" -> <<"p", "o", "s", "t">>
      [] m = "put" -> <<"p", "u", "t">>
      [] m = "delete" -> <<"d", "e", "l", "e", "t", "e">>
      [] m = "patch" -> <<"p", "a", "t", "c", "h">>

Upper(m) ==
    CASE m = "get" -> "GET"
      [] m = "post" -> "POST"
      [] m = "put" -> "PUT"
      [] m = "delete" -> "DELETE"
      [] m = "patch" -> "PATCH"

\* A derivation that also collapses runs of underscores.
RECURSIVE Collapse(_)
Collapse(s) ==
    IF Len(s) < 2 THEN s
    ELSE IF s[1] = "_" /\ s[2] = "_" THEN Collapse(Tail(s))
         ELSE <<s[1]>> \o Collapse(Tail(s))

DeriveIdCollapsing(method, path) ==
    MethodChars(method) \o <<"_">> \o
        Collapse(StrStrip(StrReplace(StrReplace(StrReplace(path, <<"/">>, <<"_">>),
                                                <<"{">>, <<>>), <<"}">>, <<>>), "_"))

\* f"{method}_{path.replace('/', '_').replace('{', '').replace('}', '').strip('_')}"
DeriveId(method, path) ==
    MethodChars(method) \o <<"_">> \o
        StrStrip(StrReplace(StrReplace(StrReplace(path, <<"/">>, <<"_">>),
                                       <<"{">>, <<>>), <<"}">>, <<>>), "_")

\* operation.get("operationId"), replaced by the derived one when it is falsy
OperationId(method, path, operation) ==
    IF Truthy(operation.operationId) THEN operation.operationId.v
    ELSE DeriveId(method, path)

\* The function "handler" that create_proxy_handler defines: it closes over the
\* method and the path template it was made for, in the script v.
HandlerFunction(v, method, path_template) ==
    [kind |-> "function", variant |-> v, method |-> method,
     path_template |-> path_template]

\* What create_proxy_handler(method, path_template) returns.  In run_mcp_server.py
\* it is a def and returns the handler function; in mcp_proxy_server.py it is an
\* async def, so the call returns a coroutine object, which is no callable.
CreateProxyHandler(v, method, path_template) ==
    IF v = "proxy"
    THEN [HandlerFunction(v, method, path_template) EXCEPT !.kind = "coroutine"]
    ELSE HandlerFunction(v, method, path_template)

\* One pass of the method loop over a path item, from the k-th method on.
RECURSIVE MethodLoop(_, _, _)
MethodLoop(v, entry, k) ==
    IF k > Len(Methods) THEN <<>>
    ELSE LET method == Methods[k]
             rest == MethodLoop(v, entry, k + 1)
         IN IF method \in DOMAIN entry.item
            THEN <<[method |-> method,
                    path |-> entry.path,
                    operation_id |-> OperationId(method, entry.path, entry.item[method]),
                    handler |-> CreateProxyHandler(v, Upper(method), entry.path)]>>
                 \o rest
            ELSE rest

\* The path loop: every route the loops would register, in order.
RECURSIVE PathLoop(_, _)
PathLoop(v, paths) ==
    IF paths = <<>> THEN <<>>
    ELSE MethodLoop(v, paths[1], 1) \o PathLoop(v, Tail(paths))

-----------------------------------------------------------------------------
(* Schema fetcher *)

\* What the remote may do with the GET of /openapi.json: refuse or time out (an
\* httpx.RequestError), or answer with a status and a body.  Body "doc" is the
\* JSON text of the schema, "list" a JSON text that is no object, "garbage" no JSON.
RequestErrors == {"ConnectError", "ReadTimeout"}

Answer(kind, error, status, body) ==
    [kind |-> kind, error |-> error, status |-> status, body |-> body]

FetchAnswers ==
    {Answer("RequestError", e, 0, "none") : e \in RequestErrors} \cup
    {Answer("response", "none", st, b) :
        st \in {200, 201, 204, 301, 404, 500, 503}, b \in {"doc", "list", "garbage"}}

GatewayAnswers ==
    {Answer("RequestError", "ConnectError", 0, "none"),
     Answer("response", "none", 200, "doc"),
     Answer("response", "none", 200, "garbage"),
     Answer("response", "none", 200, "list"),
     Answer("response", "none", 404, "garbage")}

NoAnswer == Answer("none", "none", 0, "none")

Fetched(outcome, value, answer) ==
    [outcome |-> outcome, value |-> value, answer |-> answer]

\* response.json() on the body of an answer
BodyJson(answer, ok) ==
    CASE answer.body = "doc" -> Fetched(ok, "dict", answer)
      [] answer.body = "list" -> Fetched(ok, "list", answer)
      [] OTHER -> Fetched("decode", "none", answer)

\* A fetcher that never looks at the status.
FetchAnyStatus(answer) ==
    IF answer.kind = "RequestError" THEN Fetched("unreachable", "none", answer)
    ELSE BodyJson(answer, "ok")

\* fetch_openapi_schema: raise_for_status() lets every 2xx status through
fetch_openapi_schema(answer) ==
    IF answer.kind = "RequestError" THEN Fetched("unreachable", "none", answer)
    ELSE IF answer.status \in 200..299 THEN BodyJson(answer, "ok")
    ELSE Fetched("status", "none", answer)

\* get_openapi_schema of mcp_config_standalone.py: status_code == 200
get_openapi_schema(answer) ==
    IF answer.kind = "RequestError" THEN Fetched("unreachable", "none", answer)
    ELSE IF answer.status = 200 THEN BodyJson(answer, "ok")
    ELSE Fetched("status", "none", answer)

FetchFor(v, answer) ==
    IF v = "standalone" THEN get_openapi_schema(answer) ELSE fetch_openapi_schema(answer)

\* The schema came back and is a mapping: setup goes on past its first try block.
SchemaAccepted == fetchResult.outcome = "ok" /\ fetchResult.value = "dict"

-----------------------------------------------------------------------------
(* Forwarding executor: the handler *)

BodyMethods == {"POST", "PUT", "PATCH"}

\* body = None; request.json(), else request.body(), for POST, PUT and PATCH
ReadBody(request_method, raw) ==
    IF request_method \in BodyMethods
    THEN IF JsonDecodes(raw) THEN JsonLoads(raw) ELSE PyBytes(raw)
    ELSE PyNone

\* json=body if body and isinstance(body, dict) else None
JsonArg(body) == IF Truthy(body) /\ IsDict(body) THEN body ELSE PyNone

\* A content argument that forgets the isinstance test.
ContentArgAnyType(body) == IF Truthy(body) THEN body ELSE PyNone

\* content=body if body and not isinstance(body, dict) else None
ContentArg(body) == IF Truthy(body) /\ ~IsDict(body) THEN body ELSE PyNone

\* The header names the handler of each script looks for.
AllowList(v) ==
    IF v = "proxy" THEN {"authorization"} ELSE {"authorization", "content-type"}

\* A relay that copies every inbound header.
RelayAllHeaders(v, inbound_headers) == inbound_headers

\* headers = {}; headers[name] = request.headers[name] for the names present
RelayHeaders(v, inbound_headers) ==
    {h \in inbound_headers : h[1] \in AllowList(v)}

\* str(param_value): the text of a str, the digits of an int
Str(x) == x.v

Placeholder(name) == <<"{">> \o name \o <<"}">>

\* for param_name, param_value in path_params.items(): target_path.replace(...)
RECURSIVE SubstitutePath(_, _)
SubstitutePath(target_path, path_params) ==
    IF path_params = <<>> THEN target_path
    ELSE SubstitutePath(
             StrReplace(target_path, Placeholder(path_params[1][1]),
                        Str(path_params[1][2])),
             Tail(path_params))

\* dict(request.query_params): one entry per name, in the order the names first
\* occur, each with the last value given for it
LastValue(items, name) ==
    LET idx == {i \in 1..Len(items) : items[i][1] = name}
    IN items[CHOOSE i \in idx : \A j \in idx : j <= i][2]

RECURSIVE QueryDictFrom(_, _)
QueryDictFrom(items, k) ==
    IF k > Len(items) THEN <<>>
    ELSE IF \E j \in 1..(k - 1) : items[j][1] = items[k][1]
         THEN QueryDictFrom(items, k + 1)
         ELSE <<<<items[k][1], LastValue(items, items[k][1])>>>>
              \o QueryDictFrom(items, k + 1)

QueryDict(items) == QueryDictFrom(items, 1)

Outbound(method, url, params, headers, json, content) ==
    [method |-> method, url |-> url, params |-> params, headers |-> headers,
     json |-> json, content |-> content]

NoOutbound == Outbound("none", <<>>, <<>>, {}, PyNone, PyNone)

\* The arguments of client.request(...) the handler builds for a request.
BuildOutbound(h, request) ==
    LET body == ReadBody(request.method, request.body)
    IN Outbound(h.method,
                FASTAPI_SERVICE_URL \o SubstitutePath(h.path_template, request.path_params),
                QueryDict(request.query),
                RelayHeaders(h.variant, request.headers),
                JsonArg(body),
                ContentArg(body))

\* httpx takes str, bytes or a byte stream as content; any other object makes
\* client.request raise a TypeError, which is no httpx.RequestError.
ContentAccepted(content) == content.t \in {"None", "bytes", "str"}

Remote(kind, error, status, ctype, text) ==
    [kind |-> kind, error |-> error, status |-> status, ctype |-> ctype, text |-> text]

NoRemote == Remote("none", "none", 0, <<>>, "")

Response(kind, status_code, content, content_type) ==
    [kind |-> kind, status_code |-> status_code, content |-> content,
     content_type |-> content_type]

NoResponse == Response("none", 0, PyNone, <<>>)

\* {"content": response.text}
Wrap(text) == PyDict(<<"content", text>>)

\* A normalisation that answers 502 when the JSON body does not decode.
NormalizeStrict(remote) ==
    IF StartsWith(remote.ctype, ApplicationJson) /\ ~JsonDecodes(remote.text)
    THEN Response("HTTPException", 502, PyDict(<<"detail", "decode">>), <<>>)
    ELSE Response("JSONResponse", remote.status,
                  IF StartsWith(remote.ctype, ApplicationJson)
                  THEN JsonLoads(remote.text) ELSE Wrap(remote.text),
                  remote.ctype)

\* The local response for a remote response that was received.
NormalizeResponse(remote) ==
    Response("JSONResponse", remote.status,
             IF StartsWith(remote.ctype, ApplicationJson)
             THEN IF JsonDecodes(remote.text) THEN JsonLoads(remote.text)
                  ELSE Wrap(remote.text)
             ELSE Wrap(remote.text),
             remote.ctype)

\* raise HTTPException(status_code=502, detail=...)
UpstreamError == Response("HTTPException", 502, PyDict(<<"detail", "RequestError">>), <<>>)

\* What the handler answers once the outbound call has ended.
HandlerResult(remote) ==
    IF remote.kind = "RequestError" THEN UpstreamError ELSE NormalizeResponse(remote)

\* An exception that is no httpx.RequestError leaves the handler: the server's 500.
ServerError == Response("ServerError", 500, PyNone, <<>>)

-----------------------------------------------------------------------------
(* Inbound requests and remote responses *)

\* The names between braces in a path, in order: the keys of request.path_params
\* for a request the router matched against the path.
RECURSIVE ScanParams(_, _, _)
ScanParams(s, open, name) ==
    IF s = <<>> THEN <<>>
    ELSE IF ~open
         THEN ScanParams(Tail(s), s[1] = "{", <<>>)
         ELSE IF s[1] = "}"
              THEN <<name>> \o ScanParams(Tail(s), FALSE, <<>>)
              ELSE ScanParams(Tail(s), TRUE, Append(name, s[1]))

ParamNames(path) == ScanParams(path, FALSE, <<>>)

Request(method, headers, body, path_params, query) ==
    [method |-> method, headers |-> headers, body |-> body,
     path_params |-> path_params, query |-> query]

NoRequest == Request("none", {}, "", <<>>, <<>>)

HeaderNames == {"authorization", "content-type", "host", "x-custom"}

HeaderValue(name) ==
    CASE name = "authorization" -> "Bearer x"
      [] name = "content-type" -> "application/json"
      [] name = "host" -> "local"
      [] name = "x-custom" -> "y"

\* The header sets of a request: a set of <<name, value>>, one value per name.
HeaderSets == {{<<n, HeaderValue(n)>> : n \in S} : S \in SUBSET HeaderNames}

\* Request bodies: JSON texts, the empty body and a body that is no JSON.
Bodies == (JsonTexts \ {"{\"pong\":true}"}) \cup {"", "a=1"}

\* Path parameter values: 7, "3", and values that hold the text of a placeholder.
IdName == <<"i", "d">>
SubIdName == <<"s", "u", "b", "_", "i", "d">>

PathValues ==
    {PyInt(<<"7">>), PyStr(<<"3">>), PyStr(Placeholder(SubIdName)),
     PyStr(Placeholder(IdName))}

\* The mappings of some of the names to values, in every iteration order.
RECURSIVE ParamSeqs(_, _)
ParamSeqs(names, n) ==
    IF n = 0 THEN {<<>>}
    ELSE LET shorter == ParamSeqs(names, n - 1)
         IN shorter \cup
            {Append(s, <<nm, val>>) :
                s \in {q \in shorter : Len(q) = n - 1},
                nm \in names, val \in PathValues}

Range(s) == {s[i] : i \in 1..Len(s)}

PathParamCases(path) ==
    LET names == Range(ParamNames(path))
    IN {q \in ParamSeqs(names, Cardinality(names)) :
            \A i, j \in 1..Len(q) : i # j => q[i][1] # q[j][1]}

\* What the router hands over for a matched path: every name, in path order.
MatchedParams(path) ==
    [i \in 1..Len(ParamNames(path)) |-> <<ParamNames(path)[i], PyStr(<<"7">>)>>]

Queries ==
    {<<>>,
     <<<<"q", "1">>>>,
     <<<<"q", "1">>, <<"r", "2">>>>,
     <<<<"q", "1">>, <<"q", "2">>>>,
     <<<<"q", "1">>, <<"r", "2">>, <<"q", "3">>>>}

\* The requests a handler is tried on: around the plain request of its route, the
\* headers, the body, the path parameters and the query string vary.
ForwardRequests(h) ==
    LET plain == Request(h.method, {}, "", MatchedParams(h.path_template), <<>>)
    IN {[plain EXCEPT !.headers = x] : x \in HeaderSets} \cup
       {[plain EXCEPT !.body = x] : x \in Bodies} \cup
       {[plain EXCEPT !.path_params = x] : x \in PathParamCases(h.path_template)} \cup
       {[plain EXCEPT !.query = x] : x \in Queries}

\* The requests the running gateway is tried on.
GatewayRequests(h) ==
    {Request(h.method, x, "{\"a\":1}", MatchedParams(h.path_template), <<>>) :
        x \in {{}, {<<"authorization", "Bearer x">>, <<"host", "local">>}}}

\* "application/json; charset=utf-8", "text/plain"
ApplicationJsonUtf8 ==
    ApplicationJson \o
    <<";", " ", "c", "h", "a", "r", "s", "e", "t", "=", "u", "t", "f", "-", "8">>
TextPlain == <<"t", "e", "x", "t", "/", "p", "l", "a", "i", "n">>

\* What the remote may do with a forwarded call.
ForwardRemotes ==
    {Remote("RequestError", e, 0, <<>>, "") : e \in RequestErrors} \cup
    {Remote("response", "none", st, ct, tx) :
        st \in {200, 404, 500},
        ct \in {ApplicationJson, ApplicationJsonUtf8, TextPlain, <<>>},
        tx \in {"{\"pong\":true}", "[1,2]", "oops", ""}}

GatewayRemotes ==
    {Remote("RequestError", "ConnectError", 0, <<>>, ""),
     Remote("RequestError", "ReadTimeout", 0, <<>>, ""),
     Remote("response", "none", 200, ApplicationJson, "{\"pong\":true}"),
     Remote("response", "none", 404, TextPlain, "oops")}

\* The handlers tried directly: one per method on "/items/{id}/sub/{sub_id}", and
\* GET /ping.
ForwardHandlers(v) ==
    {HandlerFunction(v, Upper(Methods[k]), PathItems) : k \in 1..Len(Methods)} \cup
    {HandlerFunction(v, "GET", PathPing)}

\* The documents the gateway is started against.
GatewaySchemas ==
    {[paths |-> <<>>],
     [paths |-> <<[path |-> PathPing, item |-> Item({"get"}, PyNone)]>>],
     [paths |-> <<[path |-> PathUsers, item |-> Item({"get", "post"}, PyNone)]>>]}

-----------------------------------------------------------------------------
(* State *)

CallIds == 1..MaxCalls

NoHandler == [HandlerFunction("none", "none", <<>>) EXCEPT !.kind = "none"]

Call(st, handler, request, outbound, remote, response, sent) ==
    [st |-> st, handler |-> handler, request |-> request, outbound |-> outbound,
     remote |-> remote, response |-> response, sent |-> sent]

IdleCall == Call("idle", NoHandler, NoRequest, NoOutbound, NoRemote, NoResponse, 0)

NotFetched == Fetched("none", "none", NoAnswer)

InitWith(v, doc) ==
    /\ variant = v
    /\ schema = doc
    /\ pc = "start"
    /\ getCount = 0
    /\ fetchResult = NotFetched
    /\ app = "None"
    /\ synthesized = <<>>
    /\ routes = <<>>
    /\ calls = [c \in CallIds |-> IdleCall]

\* A script is started against a remote.
Init == \E v \in Variants, doc \in GatewaySchemas : InitWith(v, doc)

-----------------------------------------------------------------------------
(* Gateway assembly: setup and main *)

\* The one GET of the schema endpoint, and what the fetch makes of the answer.
FetchSchema(answers) ==
    /\ pc = "start"
    /\ \E answer \in answers :
          fetchResult' = FetchFor(variant, answer)
    /\ getCount' = getCount + 1
    /\ pc' = "fetched"
    /\ UNCHANGED <<variant, schema, app, synthesized, routes, calls>>

\* except Exception: ... return None.  A fetch that raised ends setup here, and so
\* does a document that is no mapping (openapi_schema.get raises inside the try).
SetupRejects ==
    /\ pc = "fetched"
    /\ ~SchemaAccepted
    /\ app' = "None"
    /\ pc' = "setup_done"
    /\ UNCHANGED <<variant, schema, getCount, fetchResult, synthesized, routes, calls>>

\* mcp_config_standalone.py builds no routes: its setup returns None.
StandaloneSetup ==
    /\ pc = "fetched"
    /\ SchemaAccepted
    /\ variant = "standalone"
    /\ app' = "None"
    /\ pc' = "setup_done"
    /\ UNCHANGED <<variant, schema, getCount, fetchResult, synthesized, routes, calls>>

\* create_proxy_routes.  Registering a route whose endpoint is no callable raises in
\* the framework; the call is outside setup's try blocks, so the script dies there,
\* with the first object synthesized and nothing registered.
CreateProxyRoutes ==
    /\ pc = "fetched"
    /\ SchemaAccepted
    /\ variant \in {"run", "proxy"}
    /\ LET table == PathLoop(variant, schema.paths)
       IN IF table # <<>> /\ table[1].handler.kind # "function"
          THEN /\ synthesized' = <<table[1].handler>>
               /\ routes' = <<>>
               /\ pc' = "crashed"
          ELSE /\ synthesized' = [i \in 1..Len(table) |-> table[i].handler]
               /\ routes' = table
               /\ pc' = "routes_created"
    /\ UNCHANGED <<variant, schema, getCount, fetchResult, app, calls>>

\* FastApiMCP(proxy_app, ...) and mount_http(), in a try block: setup returns the
\* application, or None when either raises.
MountMCP ==
    /\ pc = "routes_created"
    /\ \E raised \in BOOLEAN : app' = IF raised THEN "None" ELSE "proxy_app"
    /\ pc' = "setup_done"
    /\ UNCHANGED <<variant, schema, getCount, fetchResult, synthesized, routes, calls>>

\* A main that runs the server whatever setup returned.
StartServerUngated ==
    /\ pc = "setup_done"
    /\ pc' = "serving"
    /\ UNCHANGED <<variant, schema, getCount, fetchResult, app, synthesized, routes, calls>>

\* main: if proxy_app: uvicorn.run(proxy_app, ...)
StartServer ==
    /\ pc = "setup_done"
    /\ app # "None"
    /\ pc' = "serving"
    /\ UNCHANGED <<variant, schema, getCount, fetchResult, app, synthesized, routes, calls>>

\* main: else: the script reports that it cannot start, and ends.
GiveUp ==
    /\ pc = "setup_done"
    /\ app = "None"
    /\ pc' = "exited"
    /\ UNCHANGED <<variant, schema, getCount, fetchResult, app, synthesized, routes, calls>>

-----------------------------------------------------------------------------
(* One inbound call *)

\* The handler h runs on a request up to its await of client.request.
HandlerSend(c, h, request) ==
    /\ calls[c].st = "idle"
    /\ h.kind = "function"
    /\ LET out == BuildOutbound(h, request)
       IN calls' = [calls EXCEPT ![c] =
              IF ContentAccepted(out.content)
              THEN Call("sent", h, request, out, NoRemote, NoResponse, 0)
              ELSE Call("done", h, request, out, NoRemote, ServerError, 1)]
    /\ UNCHANGED <<variant, schema, pc, getCount, fetchResult, app, synthesized, routes>>

\* A handler whose connection error also fails the other calls in flight.
HandlerReceiveShared(c, remote) ==
    /\ calls[c].st = "sent"
    /\ calls' = [d \in CallIds |->
           IF d = c
           THEN Call("done", calls[d].handler, calls[d].request, calls[d].outbound,
                     remote, HandlerResult(remote), calls[d].sent + 1)
           ELSE IF remote.kind = "RequestError" /\ calls[d].st = "sent"
                THEN Call("done", calls[d].handler, calls[d].request,
                          calls[d].outbound, calls[d].remote, UpstreamError,
                          calls[d].sent + 1)
                ELSE calls[d]]
    /\ UNCHANGED <<variant, schema, pc, getCount, fetchResult, app, synthesized, routes>>

\* The outbound call ends, with a response or an httpx.RequestError, and the
\* handler returns or raises.
HandlerReceive(c, remote) ==
    /\ calls[c].st = "sent"
    /\ calls' = [calls EXCEPT ![c] =
           Call("done", @.handler, @.request, @.outbound, remote,
                HandlerResult(remote), @.sent + 1)]
    /\ UNCHANGED <<variant, schema, pc, getCount, fetchResult, app, synthesized, routes>>

\* The running server routes an inbound call to the handler registered for it.
Dispatch(c) ==
    /\ pc = "serving"
    /\ calls[c].st = "idle"
    /\ \E r \in 1..Len(routes) :
          \E request \in GatewayRequests(routes[r].handler) :
              HandlerSend(c, routes[r].handler, request)

Complete(c) ==
    /\ calls[c].st = "sent"
    /\ \E remote \in GatewayRemotes : HandlerReceive(c, remote)

Next ==
    \/ FetchSchema(GatewayAnswers)
    \/ SetupRejects
    \/ StandaloneSetup
    \/ CreateProxyRoutes
    \/ MountMCP
    \/ StartServer
    \/ GiveUp
    \/ \E c \in CallIds : Dispatch(c)
    \/ \E c \in CallIds : Complete(c)

Spec == Init /\ [][Next]_vars

-----------------------------------------------------------------------------
(* The schema fetcher alone: every answer of the remote *)

NextFetch == FetchSchema(FetchAnswers)

SpecFetch == Init /\ [][NextFetch]_vars

-----------------------------------------------------------------------------
(* The route table builder alone: every document of at most MaxPaths paths *)

InitBuild ==
    \E v \in {"run", "proxy"}, doc \in Schemas :
        /\ variant = v
        /\ schema = doc
        /\ pc = "fetched"
        /\ getCount = 1
        /\ fetchResult = FetchFor(v, Answer("response", "none", 200, "doc"))
        /\ app = "None"
        /\ synthesized = <<>>
        /\ routes = <<>>
        /\ calls = [c \in CallIds |-> IdleCall]

NextBuild == CreateProxyRoutes

SpecBuild == InitBuild /\ [][NextBuild]_vars

-----------------------------------------------------------------------------
(* The handler alone: called directly with a request *)

InitForward ==
    \E v \in {"run", "proxy"} :
        /\ variant = v
        /\ schema = [paths |-> <<>>]
        /\ pc = "handler"
        /\ getCount = 0
        /\ fetchResult = NotFetched
        /\ app = "None"
        /\ synthesized = <<>>
        /\ routes = <<>>
        /\ calls = [c \in CallIds |-> IdleCall]

Invoke ==
    /\ calls[1].st = "idle"
    /\ \E h \in ForwardHandlers(variant) :
          \E request \in ForwardRequests(h) : HandlerSend(1, h, request)

Answered ==
    /\ calls[1].st = "sent"
    /\ \E remote \in ForwardRemotes : HandlerReceive(1, remote)

NextForward == Invoke \/ Answered

SpecForward == InitForward /\ [][NextForward]_vars

-----------------------------------------------------------------------------
(* Properties *)

Routed(c) == calls[c].st # "idle"
Done(c) == calls[c].st = "done"

\* The failures a fetch can end in.
FetchFailed == fetchResult.outcome \in {"unreachable", "status", "decode"}

\* C1: startup gating.  The server runs, and a call is taken, only after the
\* schema was fetched, the routes of the whole document were built and registered
\* and setup returned the application; after a failed fetch setup returns None,
\* no route is registered, the server never runs and no call is ever taken.
C1_StartupGating ==
    /\ (pc = "serving" \/ \E c \in CallIds : Routed(c)) =>
          /\ pc = "serving"
          /\ SchemaAccepted
          /\ getCount = 1
          /\ app = "proxy_app"
          /\ Len(routes) = Len(PathLoop(variant, schema.paths))
          /\ \A i \in 1..Len(routes) : routes[i].handler.kind = "function"
    /\ FetchFailed =>
          /\ pc \in {"fetched", "setup_done", "exited"}
          /\ app = "None"
          /\ routes = <<>>
          /\ \A c \in CallIds : ~Routed(c)

\* The server runs with routes registered and has answered a call.
C1_Witness ==
    /\ pc = "serving"
    /\ routes # <<>>
    /\ \E c \in CallIds : Done(c)

\* The number of (path, method) pairs of a document over the five methods.
RECURSIVE RecognisedPairs(_)
RecognisedPairs(paths) ==
    IF paths = <<>> THEN 0
    ELSE Cardinality(DOMAIN paths[1].item \cap Range(Methods))
         + RecognisedPairs(Tail(paths))

\* C2: create_proxy_routes registers one route per (path, method) pair over the
\* five recognised methods, and the operation identifiers of the routes are
\* pairwise distinct.
C2_UniqueIdentifiers ==
    (variant = "run" /\ pc = "routes_created") =>
        /\ Len(routes) = RecognisedPairs(schema.paths)
        /\ \A i, j \in 1..Len(routes) :
              i # j => routes[i].operation_id # routes[j].operation_id

\* C3: header isolation.  Every header of the outbound call is a header of the
\* inbound call, with the inbound value, and its name is authorization or
\* content-type; host, x-custom and the like never go out.
C3_HeaderIsolation ==
    \A c \in CallIds :
        Routed(c) =>
            /\ calls[c].outbound.headers \subseteq calls[c].request.headers
            /\ \A h \in calls[c].outbound.headers :
                  h[1] \in {"authorization", "content-type"}

\* A call that came with all four headers went out with authorization alone or
\* with authorization and content-type.
C3_Witness ==
    \E c \in CallIds :
        /\ Routed(c)
        /\ Cardinality(calls[c].request.headers) = 4
        /\ <<"authorization", "Bearer x">> \in calls[c].outbound.headers
        /\ Cardinality(calls[c].outbound.headers) \in {1, 2}

\* C4: body round trip.  For POST, PUT and PATCH a body that decodes as JSON goes
\* out as that decoded value in the JSON argument, whatever the value; a body
\* that does not decode goes out as the inbound bytes in the content argument.
C4_BodyRoundTrip ==
    \A c \in CallIds :
        (Routed(c) /\ calls[c].request.method \in BodyMethods) =>
            LET raw == calls[c].request.body
                out == calls[c].outbound
            IN IF JsonDecodes(raw)
               THEN out.json = JsonLoads(raw) /\ out.content = PyNone
               ELSE out.json = PyNone /\ (raw = "" \/ out.content = PyBytes(raw))

\* The path with every placeholder that has a value replaced by the value, in one
\* pass over the template: what was put in is not looked at again.
HasParam(path_params, name) == \E i \in 1..Len(path_params) : path_params[i][1] = name

ParamValue(path_params, name) ==
    path_params[CHOOSE i \in 1..Len(path_params) : path_params[i][1] = name][2]

RECURSIVE Resolved(_, _)
Resolved(s, path_params) ==
    IF s = <<>> THEN <<>>
    ELSE LET closes == {k \in 2..Len(s) : s[k] = "}"}
         IN IF s[1] = "{" /\ closes # {}
            THEN LET k == CHOOSE x \in closes : \A y \in closes : x <= y
                     name == SubSeq(s, 2, k - 1)
                 IN IF HasParam(path_params, name)
                    THEN Str(ParamValue(path_params, name))
                         \o Resolved(SubSeq(s, k + 1, Len(s)), path_params)
                    ELSE <<s[1]>> \o Resolved(Tail(s), path_params)
            ELSE <<s[1]>> \o Resolved(Tail(s), path_params)

\* C5: path substitution.  For every template and every mapping of path
\* parameters the handler gets a path without an error, in which each placeholder
\* that has a value is replaced by that value and each placeholder without one is
\* left as it is; the outbound URL is the base address followed by that path.
C5_PathSubstitution ==
    \A c \in CallIds :
        Routed(c) =>
            calls[c].outbound.url =
                FASTAPI_SERVICE_URL
                \o Resolved(calls[c].handler.path_template, calls[c].request.path_params)

\* The content a received remote response is to be relayed with.
IsJsonType(ctype) == ctype \in {ApplicationJson, ApplicationJsonUtf8}

RelayedContent(remote) ==
    IF IsJsonType(remote.ctype) /\ JsonDecodes(remote.text)
    THEN JsonLoads(remote.text)
    ELSE Wrap(remote.text)

\* C6: failure isolation.  In every interleaving of the calls, a call whose
\* outbound request ended in a connection error or a timeout has exactly one
\* response, the 502; every call whose remote responded has exactly one response,
\* with the remote's status and content; no call ends any other way; the server
\* keeps running and the route table stays the one that was built.
C6_FailureIsolation ==
    /\ \A c \in CallIds :
          /\ Done(c) /\ calls[c].remote.kind = "RequestError" =>
                /\ calls[c].response.kind = "HTTPException"
                /\ calls[c].response.status_code = 502
                /\ calls[c].sent = 1
          /\ Done(c) /\ calls[c].remote.kind = "response" =>
                /\ calls[c].response.kind = "JSONResponse"
                /\ calls[c].response.status_code = calls[c].remote.status
                /\ calls[c].response.content = RelayedContent(calls[c].remote)
                /\ calls[c].sent = 1
          /\ Done(c) => calls[c].remote.kind \in {"RequestError", "response"}
          /\ ~Done(c) => calls[c].sent = 0
    /\ (\E c \in CallIds : Routed(c)) =>
          /\ pc = "serving"
          /\ routes = PathLoop(variant, schema.paths)

\* One call ended in the 502 and another call got its remote's 200.
C6_Witness ==
    \E c, d \in CallIds :
        /\ c # d
        /\ Done(c) /\ calls[c].remote.kind = "RequestError"
        /\ calls[c].response.status_code = 502
        /\ Done(d) /\ calls[d].remote.kind = "response"
        /\ calls[d].response.status_code = 200
        /\ calls[d].response.content = PyDict(<<"pong", "True">>)

\* C7: handler synthesis.  In both scripts every object create_proxy_handler
\* returns is a handler callable, is the one registered for its route, and is
\* bound to the method and the path template of that route.
C7_HandlerSynthesis ==
    \A i \in 1..Len(synthesized) :
        /\ synthesized[i].kind = "function"
        /\ i <= Len(routes)
        /\ routes[i].handler = synthesized[i]
        /\ synthesized[i].method = Upper(routes[i].method)
        /\ synthesized[i].path_template = routes[i].path

\* The operation a route was built from.
OperationOf(route) ==
    LET entry == CHOOSE e \in Range(schema.paths) : e.path = route.path
    IN entry.item[route.method]

\* C8 as stated: a declared identifier is kept verbatim (an empty one counts as
\* none declared), and a derived one is the method, an underscore and the path
\* with its separators and braces stripped and every run of separators collapsed
\* into one underscore.
C8_DerivationAsStated ==
    \A i \in 1..Len(routes) :
        LET declared == OperationOf(routes[i]).operationId
        IN routes[i].operation_id =
               IF declared.t = "str" /\ declared.v # <<>> THEN declared.v
               ELSE DeriveIdCollapsing(routes[i].method, routes[i].path)

\* The path without its braces, each "/" turned into "_", and the underscores at
\* both ends dropped: runs of underscores inside stay.
Unbraced(path) == SelectSeq(path, LAMBDA ch : ch \notin {"{", "}"})

Underscored(path) ==
    [i \in 1..Len(Unbraced(path)) |->
        IF Unbraced(path)[i] = "/" THEN "_" ELSE Unbraced(path)[i]]

Trimmed(s) ==
    LET inner == {i \in 1..Len(s) : s[i] # "_"}
    IN IF inner = {} THEN <<>>
       ELSE SubSeq(s, CHOOSE i \in inner : \A j \in inner : i <= j,
                      CHOOSE i \in inner : \A j \in inner : j <= i)

\* "get_users_user_id", "get_a__b"
IdGetUsersUserId ==
    <<"g", "e", "t", "_", "u", "s", "e", "r", "s", "_", "u", "s", "e", "r", "_", "i", "d">>
IdGetA__B == <<"g", "e", "t", "_", "a", "_", "_", "b">>

\* C8, amended: a declared identifier that is not empty is kept verbatim;
\* otherwise the identifier is the lower-case method, an underscore and the path
\* with each "/" replaced by "_", the braces removed and the underscores at both
\* ends stripped, runs of underscores inside kept: GET /users/{user_id} gives
\* get_users_user_id and GET /a//b gives get_a__b.
C8_IdentifierDerivation ==
    \A i \in 1..Len(routes) :
        LET declared == OperationOf(routes[i]).operationId
            derived == routes[i].operation_id
        IN /\ derived =
                 IF declared.t = "str" /\ declared.v # <<>> THEN declared.v
                 ELSE MethodChars(routes[i].method) \o <<"_">>
                      \o Trimmed(Underscored(routes[i].path))
           /\ (routes[i].method = "get" /\ ~Truthy(declared)) =>
                 /\ routes[i].path = PathUsers => derived = IdGetUsersUserId
                 /\ routes[i].path = PathASlashSlashB => derived = IdGetA__B

\* A table holds the derived get_a__b beside an identifier that was declared.
C8_Witness ==
    /\ pc = "routes_created"
    /\ \E i, j \in 1..Len(routes) :
          /\ routes[i].operation_id = IdGetA__B
          /\ OperationOf(routes[i]).operationId = PyNone
          /\ OperationOf(routes[j]).operationId = PyStr(IdGetAB)
          /\ routes[j].operation_id = IdGetAB

AcceptedStatus(v, status) ==
    IF v = "standalone" THEN status = 200 ELSE status >= 200 /\ status < 300

C10_ResponseNormalization ==
    \A c \in CallIds :
        (Done(c) /\ calls[c].remote.kind = "response") =>
            /\ calls[c].response.kind = "JSONResponse"
            /\ calls[c].response.status_code = calls[c].remote.status
            /\ calls[c].response.content = RelayedContent(calls[c].remote)

\* A 404 that claimed JSON with a body that is none came back as the 404 with the
\* text wrapped.
C10_Witness ==
    \E c \in CallIds :
        /\ Done(c)
        /\ calls[c].remote.ctype = ApplicationJson
        /\ calls[c].remote.text = "oops"
        /\ calls[c].remote.status = 404
        /\ calls[c].response = Response("JSONResponse", 404, Wrap("oops"), ApplicationJson)

\* C11: query relaying.  The outbound call carries every inbound (name, value)
\* pair of the query string, each value of a repeated name included, in the
\* inbound order, and nothing else.
C11_QueryRelaying ==
    \A c \in CallIds :
        Routed(c) => calls[c].outbound.params = calls[c].request.query

\* C12: body exclusivity.  No outbound call has both the JSON argument and the
\* content argument set; a call whose method is not POST, PUT or PATCH has
\* neither, whatever body came in.
C12_BodyExclusivity ==
    \A c \in CallIds :
        Routed(c) =>
            /\ calls[c].outbound.json = PyNone \/ calls[c].outbound.content = PyNone
            /\ calls[c].request.method \notin BodyMethods =>
                  /\ calls[c].outbound.json = PyNone
                  /\ calls[c].outbound.content = PyNone

\* A GET that came with a JSON body went out with neither argument set.
C12_Witness ==
    \E c \in CallIds :
        /\ Routed(c)
        /\ calls[c].request.method = "GET"
        /\ calls[c].request.body = "{\"a\":1}"
        /\ calls[c].outbound.json = PyNone
        /\ calls[c].outbound.content = PyNone

Reverse(s) == [i \in 1..Len(s) |-> s[Len(s) + 1 - i]]

\* The path of an outbound URL: what follows the base address.
TargetPath(url) == SubSeq(url, Len(FASTAPI_SERVICE_URL) + 1, Len(url))

\* Whether some value of the mapping holds the placeholder of another name of it.
HoldsPlaceholder(path_params) ==
    \E i, j \in 1..Len(path_params) :
        /\ i # j
        /\ Str(path_params[i][2]) = Placeholder(path_params[j][1])

\* C13: substitution inserts values verbatim.  The resolved path is the same when
\* the parameters are iterated in the opposite order, and a value that holds the
\* placeholder text of another parameter is in the resolved path unchanged.
C13_VerbatimSubstitution ==
    \A c \in CallIds :
        Routed(c) =>
            LET template == calls[c].handler.path_template
                params == calls[c].request.path_params
                got == TargetPath(calls[c].outbound.url)
            IN /\ got = SubstitutePath(template, Reverse(params))
               /\ HoldsPlaceholder(params) => got = Resolved(template, params)

====
